---- MODULE Spec2Model ----
(***************************************************************************)
(* A model of scraper.py: the comment stripping and JSON extraction of     *)
(* get_json_data, the summary built by generate_report, the lines printed  *)
(* by print_report, the float arithmetic of divide_list, the Scraper       *)
(* thread's run loop and the driver main.                                  *)
(*                                                                         *)
(* Python values are modelled as follows.  A dict is a TLA+ record; a key  *)
(* that is missing from the dict is missing from the record's DOMAIN.  A   *)
(* list is a sequence.  A text is a sequence of characters.  A call that   *)
(* may raise yields Return(v) or Raise(e).                                 *)
(***************************************************************************)
EXTENDS Integers, Sequences, FiniteSets, TLC

VARIABLES
    pieces,        \* the pieces the marker element's text is made of, in order
    content_dict,  \* what get_json_data gave for tag_text
    payload,       \* generate_report's argument
    mapped,        \* what generate_report gave
    printed,       \* the lines print_report printed
    dl_input,      \* divide_list's input_list
    dl_n,          \* divide_list's n
    dl_avg,        \* divide_list's avg
    dl_last,       \* divide_list's last
    dl_divided,    \* divide_list's divided
    dl_pc,         \* where divide_list is
    urls,          \* Scraper.urls of each thread
    pc,            \* where each thread is
    idx,           \* how many URLs of its list each thread's for loop has taken
    response,      \* run's local response
    content,       \* run's local content
    summary_data,  \* run's local summary_data
    error,         \* the exception being handled
    out,           \* what each thread has printed, in order
    main_pc,       \* where main is
    main_i,        \* the index of main's start and join loops
    lines,         \* main's urls: the lines of sample_data.txt
    chunks         \* main's chunks

stripVars == <<pieces, content_dict>>

reportVars == <<payload, mapped, printed>>

divideVars == <<dl_input, dl_n, dl_avg, dl_last, dl_divided, dl_pc>>

workerVars == <<urls, pc, idx, response, content, summary_data, error, out>>

mainVars == <<main_pc, main_i, lines, chunks>>

vars == <<stripVars, reportVars, divideVars, workerVars, mainVars>>

Unset == [unset |-> TRUE]

Return(v) == [ok |-> TRUE, value |-> v]

Raise(e) == [ok |-> FALSE, error |-> e]

HasKey(d, k) == k \in DOMAIN d

(***************************************************************************)
(* JSON values of the detail entries: a string or null.                    *)
(***************************************************************************)
Str(s) == [t |-> "str", v |-> s]

Null == [t |-> "null"]

\* Python truthiness of a JSON value: None and the empty string are false.
Truthy(x) == CASE x.t = "null" -> FALSE
               [] x.t = "str" -> x.v # ""

(***************************************************************************)
(* get_json_data: str.replace, json.loads and the marker lookup.           *)
(***************************************************************************)
OpenDelim == <<"<", "!", "-", "-">>

CloseDelim == <<"-", "-", ">">>

StartsWith(s, p) == Len(s) >= Len(p) /\ SubSeq(s, 1, Len(p)) = p

\* str.replace(old, ''): one pass from the left; every occurrence found is
\* dropped and the scan goes on after it, never looking back at text that
\* the removal has joined.
RECURSIVE str_replace(_, _)
str_replace(s, old) ==
    IF s = <<>> THEN <<>>
    ELSE IF StartsWith(s, old)
         THEN str_replace(SubSeq(s, Len(old) + 1, Len(s)), old)
         ELSE <<Head(s)>> \o str_replace(Tail(s), old)

\* The removal with the second replace left out.
StripOpenOnly(tag_text) == str_replace(tag_text, OpenDelim)

\* str(data.contents[0]).replace('<!--', '').replace('-->', '')
StripComments(tag_text) == str_replace(str_replace(tag_text, OpenDelim), CloseDelim)

\* The payload of the spec's end-to-end scenario.
SeaViewFlat ==
    [bootstrapData |-> [listing |->
        [name |-> "Sea View Flat",
         space_interface |-> <<[label |-> "Bedrooms:", value |-> Str("2")]>>,
         listing_amenities |-> <<[name |-> "Wifi", category |-> "general",
                                  is_present |-> TRUE, is_safety_feature |-> FALSE]>>]]]

\* A text is a sequence whose elements are the characters "<", "!", "-", ">"
\* and document symbols.  A document symbol stands for the text of one whole
\* JSON object literal; Documents gives the dict that json.loads returns for it.
Documents ==
    [doc_ok |-> SeaViewFlat,
     doc_noname |-> [bootstrapData |-> [listing |->
                        [space_interface |-> <<>>, listing_amenities |-> <<>>]]],
     doc_nolisting |-> [bootstrapData |-> [other |-> "x"]]]

\* json.loads on such a text: exactly one object literal parses; an object
\* literal with anything before or after it, or a text made of the characters
\* "<", "!", "-", ">" alone, is not JSON.
json_loads(s) ==
    IF Len(s) = 1 /\ s[1] \in DOMAIN Documents
    THEN Return(Documents[s[1]])
    ELSE Raise("JSONDecodeError")

\* page_content is the parsed page: the sequence of the script tags that match
\* the marker signature, each the sequence of its children (texts).  find()
\* returns the first match or None; None.contents raises AttributeError and
\* contents[0] of an empty tag raises IndexError.
get_json_data(page_content) ==
    IF page_content = <<>> THEN Raise("AttributeError")
    ELSE LET data == Head(page_content)
         IN  IF data = <<>> THEN Raise("IndexError")
             ELSE json_loads(StripComments(data[1]))

(***************************************************************************)
(* generate_report                                                         *)
(***************************************************************************)
NotFound == Str("Not found")

\* detail.get('label') == label
LabelIs(detail, label) == HasKey(detail, "label") /\ detail.label = label

\* One of the three if statements of the space_interface loop:
\*   if detail.get('label') == label and detail['value']: summary[field] = detail['value']
DetailIf(detail, summary, label, field) ==
    IF ~LabelIs(detail, label) THEN Return(summary)
    ELSE IF ~HasKey(detail, "value") THEN Raise("KeyError")
    ELSE IF Truthy(detail.value)
         THEN Return([summary EXCEPT ![field] = detail.value])
         ELSE Return(summary)

\* The body of the loop over listing['space_interface'].
DetailStep(detail, summary) ==
    LET r1 == DetailIf(detail, summary, "Property type:", "property_type")
    IN  IF ~r1.ok THEN r1
        ELSE LET r2 == DetailIf(detail, r1.value, "Bedrooms:", "rooms")
             IN  IF ~r2.ok THEN r2
                 ELSE DetailIf(detail, r2.value, "Bathrooms:", "bathrooms")

RECURSIVE SpaceLoop(_, _)
SpaceLoop(details, summary) ==
    IF details = <<>> THEN Return(summary)
    ELSE LET r == DetailStep(Head(details), summary)
         IN  IF ~r.ok THEN r ELSE SpaceLoop(Tail(details), r.value)

\* The body of the loop over listing['listing_amenities'], with the safety
\* test put before the family test.
AmenityStepSafetyFirst(amenity, summary) ==
    IF ~HasKey(amenity, "is_present") THEN Raise("KeyError")
    ELSE IF ~amenity.is_present THEN Return(summary)
    ELSE IF ~HasKey(amenity, "category") \/ ~HasKey(amenity, "is_safety_feature")
              \/ ~HasKey(amenity, "name")
         THEN Raise("KeyError")
    ELSE IF amenity.is_safety_feature
         THEN Return([summary EXCEPT !.safety_feats = Append(@, amenity.name)])
    ELSE IF amenity.category = "family"
         THEN Return([summary EXCEPT !.family_amenities = Append(@, amenity.name)])
    ELSE Return([summary EXCEPT !.general_amenities = Append(@, amenity.name)])

\* The body of the loop over listing['listing_amenities'].
AmenityStep(amenity, summary) ==
    IF ~HasKey(amenity, "is_present") THEN Raise("KeyError")
    ELSE IF ~amenity.is_present THEN Return(summary)
    ELSE IF ~HasKey(amenity, "category") THEN Raise("KeyError")
    ELSE IF amenity.category = "family"
         THEN IF ~HasKey(amenity, "name") THEN Raise("KeyError")
              ELSE Return([summary EXCEPT !.family_amenities = Append(@, amenity.name)])
    ELSE IF amenity.category = "general" /\ ~HasKey(amenity, "is_safety_feature")
         THEN Raise("KeyError")
    ELSE IF ~HasKey(amenity, "name") THEN Raise("KeyError")
    ELSE IF amenity.category = "general" /\ amenity.is_safety_feature
         THEN Return([summary EXCEPT !.safety_feats = Append(@, amenity.name)])
    ELSE Return([summary EXCEPT !.general_amenities = Append(@, amenity.name)])

RECURSIVE AmenityLoop(_, _)
AmenityLoop(amenities, summary) ==
    IF amenities = <<>> THEN Return(summary)
    ELSE LET r == AmenityStep(Head(amenities), summary)
         IN  IF ~r.ok THEN r ELSE AmenityLoop(Tail(amenities), r.value)

generate_report(data) ==
    IF ~HasKey(data, "bootstrapData") THEN Raise("KeyError")
    ELSE IF ~HasKey(data.bootstrapData, "listing") THEN Raise("KeyError")
    ELSE LET listing == data.bootstrapData.listing
         IN  IF ~HasKey(listing, "name") THEN Raise("KeyError")
             ELSE LET initial ==
                          [property_name |-> listing.name,
                           property_type |-> NotFound,
                           rooms |-> NotFound,
                           bathrooms |-> NotFound,
                           general_amenities |-> <<>>,
                           family_amenities |-> <<>>,
                           safety_feats |-> <<>>]
                  IN  IF ~HasKey(listing, "space_interface") THEN Raise("KeyError")
                      ELSE LET r == SpaceLoop(listing.space_interface, initial)
                           IN  IF ~r.ok THEN r
                               ELSE IF ~HasKey(listing, "listing_amenities")
                                    THEN Raise("KeyError")
                                    ELSE AmenityLoop(listing.listing_amenities, r.value)

(***************************************************************************)
(* print_report: the lines it prints, in order.                            *)
(***************************************************************************)
Line(kind, text) == [kind |-> kind, text |-> text]

RECURSIVE Bullets(_)
Bullets(names) ==
    IF names = <<>> THEN <<>>
    ELSE <<Line("bullet", Head(names))>> \o Bullets(Tail(names))

not_found == <<"n/a">>

\* Python's  a or b  on lists.
OrElse(a, b) == IF a # <<>> THEN a ELSE b

\* print_report with the placeholder left out of the last section.
print_report_no_placeholder(report_data) ==
    <<Line("stars", ""), Line("header", report_data.property_name),
      Line("Property Type:", report_data.property_type),
      Line("Number of Bedrooms:", report_data.rooms),
      Line("Number of Bathrooms:", report_data.bathrooms),
      Line("section", "AMENITIES")>>
    \o Bullets(report_data.general_amenities)
    \o <<Line("section", "FAMILY AMENITIES")>>
    \o Bullets(OrElse(report_data.family_amenities, not_found))
    \o <<Line("section", "SAFETY FEATURES")>>
    \o Bullets(report_data.safety_feats)
    \o <<Line("blank", "")>>

print_report(report_data) ==
    <<Line("stars", ""), Line("header", report_data.property_name),
      Line("Property Type:", report_data.property_type),
      Line("Number of Bedrooms:", report_data.rooms),
      Line("Number of Bathrooms:", report_data.bathrooms),
      Line("section", "AMENITIES")>>
    \o Bullets(report_data.general_amenities)
    \o <<Line("section", "FAMILY AMENITIES")>>
    \o Bullets(OrElse(report_data.family_amenities, not_found))
    \o <<Line("section", "SAFETY FEATURES")>>
    \o Bullets(OrElse(report_data.safety_feats, not_found))
    \o <<Line("blank", "")>>

(***************************************************************************)
(* divide_list.  Its arithmetic is on IEEE-754 doubles: len / float(n) and *)
(* last + avg are each rounded to 53 significant bits, to nearest, ties to *)
(* even.  A non-negative double is held exactly in a fixed-point register: *)
(* a sequence of Limbs limbs of LimbBits bits each, lowest first, of which *)
(* the lowest FracLimbs hold the fraction and the highest holds the        *)
(* integer part.  Bit p of the register (p >= 0) has weight                *)
(* 2^(p - FracLimbs * LimbBits).                                           *)
(***************************************************************************)
MantissaBits == 53

LimbBits == 15

FracLimbs == 4

Limbs == FracLimbs + 1

RECURSIVE Pow2(_)
Pow2(k) == IF k = 0 THEN 1 ELSE 2 * Pow2(k - 1)

\* float(v) of an int 0 <= v < 2^LimbBits.
FromInt(v) == [k \in 1..Limbs |-> IF k = Limbs THEN v ELSE 0]

\* int(f): truncation of a non-negative double.
Floor(f) == f[Limbs]

RECURSIVE AddLimbs(_, _, _, _)
AddLimbs(a, b, k, carry) ==
    IF k > Limbs THEN <<>>
    ELSE <<(a[k] + b[k] + carry) % Pow2(LimbBits)>>
         \o AddLimbs(a, b, k + 1, (a[k] + b[k] + carry) \div Pow2(LimbBits))

\* The exact sum of two registers.
ExactAdd(a, b) == AddLimbs(a, b, 1, 0)

RECURSIVE LessFrom(_, _, _)
LessFrom(a, b, k) ==
    IF k = 0 THEN FALSE
    ELSE IF a[k] # b[k] THEN a[k] < b[k]
    ELSE LessFrom(a, b, k - 1)

\* a < b
Less(a, b) == LessFrom(a, b, Limbs)

RECURSIVE BitLen(_)
BitLen(v) == IF v = 0 THEN 0 ELSE 1 + BitLen(v \div 2)

RECURSIVE TopLimb(_, _)
TopLimb(f, k) == IF k = 0 THEN 0 ELSE IF f[k] # 0 THEN k ELSE TopLimb(f, k - 1)

\* The position of the highest set bit, -1 for zero.
HighBit(f) ==
    LET k == TopLimb(f, Limbs)
    IN  IF k = 0 THEN -1 ELSE (k - 1) * LimbBits + BitLen(f[k]) - 1

BitAt(f, p) == (f[p \div LimbBits + 1] \div Pow2(p % LimbBits)) % 2

\* Some bit below position p is set.
BelowNonzero(f, p) ==
    \E k \in 1..Limbs :
        /\ (k - 1) * LimbBits < p
        /\ IF k * LimbBits <= p THEN f[k] # 0
           ELSE f[k] % Pow2(p - (k - 1) * LimbBits) # 0

\* Round to nearest, ties to even, at MantissaBits significant bits.  sticky
\* says that the exact value has a non-zero part below the register.  A value
\* whose MantissaBits significant bits reach the bottom of the register is
\* taken as exact.
RoundDouble(f, sticky) ==
    LET lo == HighBit(f) - (MantissaBits - 1)
    IN  IF lo <= 0 THEN f
        ELSE LET rest == sticky \/ BelowNonzero(f, lo - 1)
                 up == BitAt(f, lo - 1) = 1 /\ (rest \/ BitAt(f, lo) = 1)
                 trunc == [k \in 1..Limbs |->
                              IF k * LimbBits <= lo THEN 0
                              ELSE IF (k - 1) * LimbBits >= lo THEN f[k]
                              ELSE f[k] - (f[k] % Pow2(lo - (k - 1) * LimbBits))]
                 unit == [k \in 1..Limbs |->
                              IF k = lo \div LimbBits + 1 THEN Pow2(lo % LimbBits) ELSE 0]
             IN  IF up THEN ExactAdd(trunc, unit) ELSE trunc

\* Long division of the register f by the int n, highest limb first: the
\* quotient's limbs and the last remainder.
RECURSIVE DivLimbs(_, _, _, _)
DivLimbs(f, n, k, rem) ==
    IF k = 0 THEN [q |-> <<>>, rem |-> rem]
    ELSE LET num == rem * Pow2(LimbBits) + f[k]
             below == DivLimbs(f, n, k - 1, num % n)
         IN  [q |-> Append(below.q, num \div n), rem |-> below.rem]

\* len / float(n)
FloatDiv(len, n) ==
    LET d == DivLimbs(FromInt(len), n, Limbs, 0)
    IN  RoundDouble(d.q, d.rem # 0)

\* a + b on doubles
FloatAdd(a, b) == RoundDouble(ExactAdd(a, b), FALSE)

\* input_list[a:b] for 0 <= a
Slice(input_list, a, b) ==
    SubSeq(input_list, a + 1, IF b < Len(input_list) THEN b ELSE Len(input_list))

\* last < len(input_list)
WhileCond(input_list, last) == Less(last, FromInt(Len(input_list)))

\* input_list[int(last):int(last + avg)]
NextChunk(input_list, avg, last) ==
    Slice(input_list, Floor(last), Floor(FloatAdd(last, avg)))

\* The while loop of divide_list, from the state (last, divided).
RECURSIVE DivideLoop(_, _, _, _)
DivideLoop(input_list, avg, last, divided) ==
    IF ~WhileCond(input_list, last) THEN divided
    ELSE DivideLoop(input_list, avg, FloatAdd(last, avg),
                    Append(divided, NextChunk(input_list, avg, last)))

divide_list(input_list, n) ==
    DivideLoop(input_list, FloatDiv(Len(input_list), n), FromInt(0), <<>>)

(***************************************************************************)
(* The pages behind the URLs: what session.get(url) does for each URL of   *)
(* the model's world.  response.text is given as the parsed page that      *)
(* get_json_data builds from it.                                           *)
(***************************************************************************)
Wrapped(doc) == OpenDelim \o <<doc>> \o CloseDelim

Response(status_code, text) == [status_code |-> status_code, text |-> text]

session_get(url) ==
    CASE url = "http://ok"        -> Return(Response(200, << <<Wrapped("doc_ok")>> >>))
      [] url = "http://noname"    -> Return(Response(200, << <<Wrapped("doc_noname")>> >>))
      [] url = "http://nolisting" -> Return(Response(200, << <<Wrapped("doc_nolisting")>> >>))
      [] url = "http://badjson"   -> Return(Response(200, << <<OpenDelim \o <<"doc_ok", "-">>>> >>))
      [] url = "http://nomarker"  -> Return(Response(200, <<>>))
      [] url = "http://404"       -> Return(Response(404, <<>>))
      [] url = "http://down"      -> Raise("ConnectionError")
      [] url = ""                 -> Raise("MissingSchema")

Urls == {"http://ok", "http://noname", "http://nolisting", "http://badjson",
         "http://nomarker", "http://404", "http://down"}

no_threads == 6

Threads == 1..no_threads

(***************************************************************************)
(* Scraper                                                                 *)
(***************************************************************************)
\* Scraper.__init__: a str is wrapped in a list.  The argument is
\* [str |-> u] or [list |-> us].
Scraper_init(arg) == IF HasKey(arg, "str") THEN <<arg.str>> ELSE arg.list

\* except Exception: the classes the model raises are all subclasses of it.
ExceptionClasses == {"ConnectionError", "MissingSchema", "AttributeError",
                     "IndexError", "JSONDecodeError", "KeyError"}

\* A handler that catches KeyError alone.
CatchesKeyErrorOnly(e) == e = "KeyError"

Catches(e) == e \in ExceptionClasses

\* Where a raise inside the try block goes.
RaiseTo(e) == IF Catches(e) THEN "except" ELSE "died"

Url(w) == urls[w][idx[w]]

Prints(w, event) == [out EXCEPT ![w] = Append(@, event)]

\* for url in self.urls: ... print(url); the loop's end is run's return.
ForNext(w) ==
    /\ pc[w] = "for"
    /\ IF idx[w] < Len(urls[w])
       THEN /\ idx' = [idx EXCEPT ![w] = @ + 1]
            /\ out' = Prints(w, [type |-> "url", url |-> urls[w][idx[w] + 1]])
            /\ pc' = [pc EXCEPT ![w] = "get"]
       ELSE /\ pc' = [pc EXCEPT ![w] = "finished"]
            /\ UNCHANGED <<idx, out>>
    /\ UNCHANGED <<urls, response, content, summary_data, error>>
    /\ UNCHANGED <<stripVars, reportVars, divideVars, mainVars>>

\* response = session.get(url, )
Get(w) ==
    /\ pc[w] = "get"
    /\ LET r == session_get(Url(w))
       IN  IF r.ok
           THEN /\ response' = [response EXCEPT ![w] = r.value]
                /\ pc' = [pc EXCEPT ![w] = "status"]
                /\ UNCHANGED error
           ELSE /\ error' = [error EXCEPT ![w] = r.error]
                /\ pc' = [pc EXCEPT ![w] = RaiseTo(r.error)]
                /\ UNCHANGED response
    /\ UNCHANGED <<urls, idx, content, summary_data, out>>
    /\ UNCHANGED <<stripVars, reportVars, divideVars, mainVars>>

\* if response.status_code != 200: print(...); return
CheckStatus(w) ==
    /\ pc[w] = "status"
    /\ IF response[w].status_code # 200
       THEN /\ out' = Prints(w, [type |-> "failed_to_retrieve", url |-> Url(w),
                                  status_code |-> response[w].status_code])
            /\ pc' = [pc EXCEPT ![w] = "finished"]
       ELSE /\ pc' = [pc EXCEPT ![w] = "extract"]
            /\ UNCHANGED out
    /\ UNCHANGED <<urls, idx, response, content, summary_data, error>>
    /\ UNCHANGED <<stripVars, reportVars, divideVars, mainVars>>

\* content = get_json_data(response.text)
Extract(w) ==
    /\ pc[w] = "extract"
    /\ LET r == get_json_data(response[w].text)
       IN  IF r.ok
           THEN /\ content' = [content EXCEPT ![w] = r.value]
                /\ pc' = [pc EXCEPT ![w] = "map"]
                /\ UNCHANGED error
           ELSE /\ error' = [error EXCEPT ![w] = r.error]
                /\ pc' = [pc EXCEPT ![w] = RaiseTo(r.error)]
                /\ UNCHANGED content
    /\ UNCHANGED <<urls, idx, response, summary_data, out>>
    /\ UNCHANGED <<stripVars, reportVars, divideVars, mainVars>>

\* summary_data = generate_report(content)
Map(w) ==
    /\ pc[w] = "map"
    /\ LET r == generate_report(content[w])
       IN  IF r.ok
           THEN /\ summary_data' = [summary_data EXCEPT ![w] = r.value]
                /\ pc' = [pc EXCEPT ![w] = "render"]
                /\ UNCHANGED error
           ELSE /\ error' = [error EXCEPT ![w] = r.error]
                /\ pc' = [pc EXCEPT ![w] = RaiseTo(r.error)]
                /\ UNCHANGED summary_data
    /\ UNCHANGED <<urls, idx, response, content, out>>
    /\ UNCHANGED <<stripVars, reportVars, divideVars, mainVars>>

\* The render stage with nothing printed.
RenderSilent(w) ==
    /\ pc[w] = "render"
    /\ pc' = [pc EXCEPT ![w] = "for"]
    /\ UNCHANGED <<urls, idx, response, content, summary_data, error, out>>
    /\ UNCHANGED <<stripVars, reportVars, divideVars, mainVars>>

\* print_report(summary_data)
Render(w) ==
    /\ pc[w] = "render"
    /\ out' = Prints(w, [type |-> "report", lines |-> print_report(summary_data[w])])
    /\ pc' = [pc EXCEPT ![w] = "for"]
    /\ UNCHANGED <<urls, idx, response, content, summary_data, error>>
    /\ UNCHANGED <<stripVars, reportVars, divideVars, mainVars>>

\* A handler that swallows the exception without a message.
ExceptSilent(w) ==
    /\ pc[w] = "except"
    /\ pc' = [pc EXCEPT ![w] = "for"]
    /\ UNCHANGED <<urls, idx, response, content, summary_data, error, out>>
    /\ UNCHANGED <<stripVars, reportVars, divideVars, mainVars>>

\* except Exception as error: print('Scraper failed to run for URL ...')
Except(w) ==
    /\ pc[w] = "except"
    /\ out' = Prints(w, [type |-> "scraper_failed", url |-> Url(w), error |-> error[w]])
    /\ pc' = [pc EXCEPT ![w] = "for"]
    /\ UNCHANGED <<urls, idx, response, content, summary_data, error>>
    /\ UNCHANGED <<stripVars, reportVars, divideVars, mainVars>>

\* One step of thread w's run.
Run(w) ==
    \/ ForNext(w)
    \/ Get(w)
    \/ CheckStatus(w)
    \/ Extract(w)
    \/ Map(w)
    \/ Render(w)
    \/ Except(w)

(***************************************************************************)
(* Values of the variables a specification does not use.                   *)
(***************************************************************************)
StripIdle == pieces = <<>> /\ content_dict = Unset

ReportIdle == payload = Unset /\ mapped = Unset /\ printed = Unset

DivideIdle ==
    /\ dl_input = <<>> /\ dl_n = 1 /\ dl_avg = Unset /\ dl_last = Unset
    /\ dl_divided = <<>> /\ dl_pc = "idle"

WorkerIdle ==
    /\ urls = [w \in Threads |-> <<>>]
    /\ pc = [w \in Threads |-> "none"]
    /\ idx = [w \in Threads |-> 0]
    /\ response = [w \in Threads |-> Unset]
    /\ content = [w \in Threads |-> Unset]
    /\ summary_data = [w \in Threads |-> Unset]
    /\ error = [w \in Threads |-> Unset]
    /\ out = [w \in Threads |-> <<>>]

MainIdle == main_pc = "idle" /\ main_i = 0 /\ lines = <<>> /\ chunks = <<>>

(***************************************************************************)
(* SpecWorker: two Scraper threads, each built on a list of URLs or on one *)
(* URL given as a str, are started and run side by side.                   *)
(***************************************************************************)
MaxUrls == 3

\* The lists of at most m elements of S.
SeqsUpTo(S, m) == UNION {[1..k -> S] : k \in 0..m}

\* The arguments a Scraper is built on.
ScraperArgs(m) ==
    {[list |-> us] : us \in SeqsUpTo(Urls, m)}
    \cup (IF m >= 1 THEN {[str |-> u] : u \in Urls} ELSE {})

InitWorker ==
    /\ \E a1 \in ScraperArgs(MaxUrls) :
       \E a2 \in ScraperArgs(MaxUrls - Len(Scraper_init(a1))) :
          urls = [w \in Threads |-> IF w = 1 THEN Scraper_init(a1)
                                    ELSE IF w = 2 THEN Scraper_init(a2)
                                    ELSE <<>>]
    /\ pc = [w \in Threads |-> IF w \in {1, 2} THEN "new" ELSE "none"]
    /\ idx = [w \in Threads |-> 0]
    /\ response = [w \in Threads |-> Unset]
    /\ content = [w \in Threads |-> Unset]
    /\ summary_data = [w \in Threads |-> Unset]
    /\ error = [w \in Threads |-> Unset]
    /\ out = [w \in Threads |-> <<>>]
    /\ StripIdle /\ ReportIdle /\ DivideIdle /\ MainIdle

\* t.start()
Start(w) ==
    /\ pc[w] = "new"
    /\ pc' = [pc EXCEPT ![w] = "for"]
    /\ UNCHANGED <<urls, idx, response, content, summary_data, error, out>>
    /\ UNCHANGED <<stripVars, reportVars, divideVars, mainVars>>

NextWorker == \E w \in Threads : Start(w) \/ Run(w)

SpecWorker == InitWorker /\ [][NextWorker]_vars

(***************************************************************************)
(* SpecMain: main on the lines of sample_data.txt.                         *)
(***************************************************************************)
MaxLines == 3

\* data.split('\n') has at least one element, '' for an empty file or after
\* a final newline.  The lines the model draws from: the empty line and one
\* URL each for a report, a status that is not 200, and a raise.
FileLines == {"", "http://ok", "http://404", "http://noname"}

InitMain ==
    /\ lines \in SeqsUpTo(FileLines, MaxLines) \ {<<>>}
    /\ main_pc = "divide"
    /\ main_i = 0
    /\ chunks = <<>>
    /\ WorkerIdle
    /\ StripIdle /\ ReportIdle /\ DivideIdle

\* chunks = divide_list(urls, no_threads)
MainDivide ==
    /\ main_pc = "divide"
    /\ chunks' = divide_list(lines, no_threads)
    /\ main_pc' = "create"
    /\ UNCHANGED <<main_i, lines, workerVars, stripVars, reportVars, divideVars>>

\* threads = [Scraper(chunks[x]) for x in range(no_threads)]; chunks[x] past
\* the end of chunks raises IndexError, which nothing in main catches.
MainCreate ==
    /\ main_pc = "create"
    /\ IF Len(chunks) < no_threads
       THEN /\ main_pc' = "raised"
            /\ UNCHANGED <<urls, pc, main_i>>
       ELSE /\ urls' = [w \in Threads |-> Scraper_init([list |-> chunks[w]])]
            /\ pc' = [w \in Threads |-> "new"]
            /\ main_pc' = "start"
            /\ main_i' = 1
    /\ UNCHANGED <<idx, response, content, summary_data, error, out, lines, chunks>>
    /\ UNCHANGED <<stripVars, reportVars, divideVars>>

\* for t in threads: t.start()
MainStart ==
    /\ main_pc = "start"
    /\ pc' = [pc EXCEPT ![main_i] = "for"]
    /\ IF main_i < no_threads
       THEN main_i' = main_i + 1 /\ UNCHANGED main_pc
       ELSE main_i' = 1 /\ main_pc' = "join"
    /\ UNCHANGED <<urls, idx, response, content, summary_data, error, out, lines, chunks>>
    /\ UNCHANGED <<stripVars, reportVars, divideVars>>

\* for t in threads: t.join(); join returns once the thread's run has ended,
\* by return or by an exception that left it.
MainJoin ==
    /\ main_pc = "join"
    /\ pc[main_i] \in {"finished", "died"}
    /\ IF main_i < no_threads
       THEN main_i' = main_i + 1 /\ UNCHANGED main_pc
       ELSE main_i' = 0 /\ main_pc' = "print"
    /\ UNCHANGED <<lines, chunks, workerVars, stripVars, reportVars, divideVars>>

\* print('Execution time: ', ...); return
MainReturn ==
    /\ main_pc = "print"
    /\ main_pc' = "returned"
    /\ UNCHANGED <<main_i, lines, chunks, workerVars, stripVars, reportVars, divideVars>>

NextMain ==
    \/ MainDivide
    \/ MainCreate
    \/ MainStart
    \/ MainJoin
    \/ MainReturn
    \/ \E w \in Threads : Run(w)

SpecMain == InitMain /\ [][NextMain]_vars

(***************************************************************************)
(* SpecStrip: get_json_data on a page whose marker element holds a text    *)
(* put together from single characters and whole comment delimiters.       *)
(***************************************************************************)
MaxTyped == 3

MaxDelims == 2

Alphabet == {"<", "!", "-", ">", "doc_ok"}

RECURSIVE Flatten(_)
Flatten(ps) == IF ps = <<>> THEN <<>> ELSE Head(ps) \o Flatten(Tail(ps))

IsTyped(piece) == Len(piece) = 1

IsDelim(piece) == Len(piece) > 1

\* The text of the marker element.
tag_content == Flatten(pieces)

\* The same text without the delimiters that were put into it.
body == Flatten(SelectSeq(pieces, IsTyped))

InitStrip ==
    /\ pieces = <<>>
    /\ content_dict = Unset
    /\ ReportIdle /\ DivideIdle /\ WorkerIdle /\ MainIdle

TypeChar ==
    /\ content_dict = Unset
    /\ Len(SelectSeq(pieces, IsTyped)) < MaxTyped
    /\ \E c \in Alphabet : pieces' = Append(pieces, <<c>>)
    /\ UNCHANGED <<content_dict, reportVars, divideVars, workerVars, mainVars>>

PutDelim ==
    /\ content_dict = Unset
    /\ Len(SelectSeq(pieces, IsDelim)) < MaxDelims
    /\ \E d \in {OpenDelim, CloseDelim} : pieces' = Append(pieces, d)
    /\ UNCHANGED <<content_dict, reportVars, divideVars, workerVars, mainVars>>

\* get_json_data on the page whose one marker element holds tag_content.
ParseTag ==
    /\ content_dict = Unset
    /\ content_dict' = get_json_data(<< <<tag_content>> >>)
    /\ UNCHANGED <<pieces, reportVars, divideVars, workerVars, mainVars>>

NextStrip == TypeChar \/ PutDelim \/ ParseTag

SpecStrip == InitStrip /\ [][NextStrip]_vars

(***************************************************************************)
(* SpecAmenities and SpecDetails: generate_report on a payload, then       *)
(* print_report on the summary.                                            *)
(***************************************************************************)
MaxAmenities == 3

MaxDetails == 2

AmenityNames == <<"Wifi", "Crib", "Smoke alarm", "TV", "Pool", "Heating">>

Categories == {"family", "general", "logistics"}

\* The amenities lists of at most MaxAmenities entries, entry i named
\* AmenityNames[i].
AmenityLists ==
    UNION {{[i \in 1..k |-> [name |-> AmenityNames[i], is_present |-> f[i][1],
                             category |-> f[i][2], is_safety_feature |-> f[i][3]]] :
            f \in [1..k -> BOOLEAN \X Categories \X BOOLEAN]} : k \in 0..MaxAmenities}

Labels == {"Property type:", "Bedrooms:", "Bathrooms:", "Check In:"}

Values == {Null, Str(""), Str("1"), Str("2")}

\* A detail entry has a label or none, and a value or none.
DetailEntries ==
    {[label |-> l, value |-> v] : l \in Labels, v \in Values}
    \cup {[label |-> l] : l \in Labels}
    \cup {[value |-> v] : v \in Values}

Payload(details, amenities) ==
    [bootstrapData |-> [listing |-> [name |-> "Sea View Flat",
                                     space_interface |-> details,
                                     listing_amenities |-> amenities]]]

Listing == payload.bootstrapData.listing

InitAmenities ==
    /\ \E amenities \in AmenityLists :
          payload = Payload(SeaViewFlat.bootstrapData.listing.space_interface, amenities)
    /\ mapped = Unset
    /\ printed = Unset
    /\ StripIdle /\ DivideIdle /\ WorkerIdle /\ MainIdle

InitDetails ==
    /\ \E details \in SeqsUpTo(DetailEntries, MaxDetails) :
          payload = Payload(details, SeaViewFlat.bootstrapData.listing.listing_amenities)
    /\ mapped = Unset
    /\ printed = Unset
    /\ StripIdle /\ DivideIdle /\ WorkerIdle /\ MainIdle

\* summary_data = generate_report(content)
Generate ==
    /\ mapped = Unset
    /\ mapped' = generate_report(payload)
    /\ UNCHANGED <<payload, printed, stripVars, divideVars, workerVars, mainVars>>

\* print_report(summary_data)
PrintReport ==
    /\ mapped # Unset
    /\ mapped.ok
    /\ printed = Unset
    /\ printed' = print_report(mapped.value)
    /\ UNCHANGED <<payload, mapped, stripVars, divideVars, workerVars, mainVars>>

NextReport == Generate \/ PrintReport

SpecAmenities == InitAmenities /\ [][NextReport]_vars

SpecDetails == InitDetails /\ [][NextReport]_vars

(***************************************************************************)
(* SpecPartition: divide_list, one pass of its while loop at a time.       *)
(***************************************************************************)
MaxListLen == 8

MaxChunks == 7

InitPartition ==
    /\ dl_input \in {[i \in 1..len |-> i] : len \in 0..MaxListLen}
    /\ dl_n \in 1..MaxChunks
    /\ dl_avg = Unset
    /\ dl_last = Unset
    /\ dl_divided = <<>>
    /\ dl_pc = "enter"
    /\ StripIdle /\ ReportIdle /\ WorkerIdle /\ MainIdle

\* avg = len(input_list) / float(n); last = 0.0; divided = []
DivideEnter ==
    /\ dl_pc = "enter"
    /\ dl_avg' = FloatDiv(Len(dl_input), dl_n)
    /\ dl_last' = FromInt(0)
    /\ dl_pc' = "while"
    /\ UNCHANGED <<dl_input, dl_n, dl_divided>>
    /\ UNCHANGED <<stripVars, reportVars, workerVars, mainVars>>

\* while last < len(input_list): divided.append(...); last += avg
DivideWhile ==
    /\ dl_pc = "while"
    /\ IF WhileCond(dl_input, dl_last)
       THEN /\ dl_divided' = Append(dl_divided, NextChunk(dl_input, dl_avg, dl_last))
            /\ dl_last' = FloatAdd(dl_last, dl_avg)
            /\ UNCHANGED dl_pc
       ELSE /\ dl_pc' = "returned"
            /\ UNCHANGED <<dl_divided, dl_last>>
    /\ UNCHANGED <<dl_input, dl_n, dl_avg>>
    /\ UNCHANGED <<stripVars, reportVars, workerVars, mainVars>>

NextPartition == DivideEnter \/ DivideWhile

SpecPartition == InitPartition /\ [][NextPartition]_vars

(***************************************************************************)
(* Claims about divide_list (SpecPartition).                               *)
(***************************************************************************)

\* C3: for every list of length L >= 0 and every n >= 1, divide_list returns
\* exactly n sub-sequences whose concatenation in order is the list, each of
\* length floor(L/n) or ceil(L/n), so that main can index chunks[0..n-1] and
\* every URL belongs to exactly one worker.
C3_PartitionerContract ==
    dl_pc = "returned" =>
        /\ Len(dl_divided) = dl_n
        /\ Flatten(dl_divided) = dl_input
        /\ \A k \in 1..Len(dl_divided) :
              Len(dl_divided[k]) \in {Len(dl_input) \div dl_n,
                                      (Len(dl_input) + dl_n - 1) \div dl_n}

(***************************************************************************)
(* Claims about get_json_data (SpecStrip).                                 *)
(***************************************************************************)
HasDelim(text) ==
    \E i \in 1..Len(text) :
        \/ StartsWith(SubSeq(text, i, Len(text)), OpenDelim)
        \/ StartsWith(SubSeq(text, i, Len(text)), CloseDelim)

\* No character of the text is a character of a delimiter.
Inert(text) == \A i \in 1..Len(text) : text[i] \notin {"<", "!", "-", ">"}

StrippedFirst == << <<StripComments(tag_content)>> >>

\* C7 as stated: for every marker text with the delimiters anywhere in it,
\* get_json_data yields what it yields for the text with the delimiters
\* already removed, that is, removing twice gives the text of removing once.
C7_StripIdempotent ==
    content_dict # Unset =>
        /\ content_dict = get_json_data(StrippedFirst)
        /\ StripComments(StripComments(tag_content)) = StripComments(tag_content)

\* C7 as amended: the same, for every marker text in which one removal pass
\* leaves no delimiter; this is so whenever the delimiters were put anywhere
\* into a text that has none of the characters "<", "!", "-", ">", and then
\* the removal gives back that text and get_json_data parses it.
C7_StripIdempotentWhenClean ==
    content_dict # Unset =>
        /\ ~HasDelim(StripComments(tag_content)) =>
              /\ content_dict = get_json_data(StrippedFirst)
              /\ StripComments(StripComments(tag_content)) = StripComments(tag_content)
        /\ Inert(body) =>
              /\ StripComments(tag_content) = body
              /\ ~HasDelim(StripComments(tag_content))
              /\ content_dict = json_loads(body)

\* A text with the close delimiter before the document and the open one
\* after it has been parsed to the document's payload.
C7_Witness ==
    /\ content_dict # Unset
    /\ pieces = <<CloseDelim, <<"doc_ok">>, OpenDelim>>
    /\ content_dict = Return(SeaViewFlat)

(***************************************************************************)
(* Claims about generate_report and print_report (SpecAmenities,           *)
(* SpecDetails).                                                           *)
(***************************************************************************)
Amenities == Listing.listing_amenities

Details == Listing.space_interface

NamesOf(entries) == [i \in 1..Len(entries) |-> entries[i].name]

InFamily(a) == a.is_present /\ a.category = "family"

InSafety(a) == a.is_present /\ a.category = "general" /\ a.is_safety_feature

InGeneral(a) == a.is_present /\ ~InFamily(a) /\ ~InSafety(a)

Occurs(name, list) == Cardinality({i \in 1..Len(list) : list[i] = name})

\* C4: the family list is the names of the present entries of category
\* "family", whatever their safety flag; the safety list those of the present
\* entries of category "general" with the safety flag; the general list those
\* of all other present entries; each in order of appearance.  A present
\* entry's name is in exactly one list, an absent entry's in none.
C4_AmenityGrouping ==
    mapped # Unset =>
        /\ mapped.ok
        /\ mapped.value.family_amenities = NamesOf(SelectSeq(Amenities, InFamily))
        /\ mapped.value.safety_feats = NamesOf(SelectSeq(Amenities, InSafety))
        /\ mapped.value.general_amenities = NamesOf(SelectSeq(Amenities, InGeneral))
        /\ \A i \in 1..Len(Amenities) :
              LET a == Amenities[i]
                  fam == Occurs(a.name, mapped.value.family_amenities)
                  saf == Occurs(a.name, mapped.value.safety_feats)
                  gen == Occurs(a.name, mapped.value.general_amenities)
              IN  /\ fam + saf + gen = IF a.is_present THEN 1 ELSE 0
                  /\ a.is_present /\ a.category = "family" /\ a.is_safety_feature
                        => fam = 1 /\ saf = 0

\* A summary built from a present family entry with the safety flag, with
\* all three lists filled.
C4_Witness ==
    /\ mapped # Unset
    /\ mapped.ok
    /\ \E i \in 1..Len(Amenities) :
          /\ Amenities[i].is_present
          /\ Amenities[i].category = "family"
          /\ Amenities[i].is_safety_feature
          /\ Occurs(Amenities[i].name, mapped.value.family_amenities) = 1
    /\ mapped.value.safety_feats # <<>>
    /\ mapped.value.general_amenities # <<>>

\* The detail entries that set the field of a label.
Setters(label) ==
    {i \in 1..Len(Details) :
        /\ LabelIs(Details[i], label)
        /\ HasKey(Details[i], "value")
        /\ Truthy(Details[i].value)}

FieldOf(label, field) ==
    IF Setters(label) = {} THEN mapped.value[field] = NotFound
    ELSE \E i \in Setters(label) : mapped.value[field] = Details[i].value

\* C5: each of the three fields is overwritten only by a detail entry with
\* its label whose value is present and non-empty; with no such entry (label
\* omitted, value absent or value empty) a summary is still produced and the
\* field is "Not found"; entries with other labels are ignored without error.
C5_ScalarDefaults ==
    mapped # Unset =>
        /\ mapped.ok
        /\ FieldOf("Property type:", "property_type")
        /\ FieldOf("Bedrooms:", "rooms")
        /\ FieldOf("Bathrooms:", "bathrooms")

IsSection(i, name) == printed[i].kind = "section" /\ printed[i].text = name

\* The texts of the lines strictly between lines from and to.
TextsBetween(from, to) == [k \in 1..(to - from - 1) |-> printed[from + k].text]

PlaceholderFor(names) == IF names = <<>> THEN <<"n/a">> ELSE names

\* C8: print_report prints the sections "AMENITIES", "FAMILY AMENITIES",
\* "SAFETY FEATURES" in that order, each followed by one bulleted line per
\* entry of its list in list order; an empty family or safety list gives
\* exactly one bulleted "n/a" line, an empty general list no bulleted line.
C8_RendererPlaceholders ==
    printed # Unset =>
        /\ Cardinality({i \in 1..Len(printed) : printed[i].kind = "section"}) = 3
        /\ printed[Len(printed)].kind = "blank"
        /\ \E a, f, g \in 1..Len(printed) :
              /\ a < f /\ f < g
              /\ IsSection(a, "AMENITIES")
              /\ IsSection(f, "FAMILY AMENITIES")
              /\ IsSection(g, "SAFETY FEATURES")
              /\ \A i \in (a + 1)..(Len(printed) - 1) :
                    i \notin {f, g} => printed[i].kind = "bullet"
              /\ TextsBetween(a, f) = mapped.value.general_amenities
              /\ TextsBetween(f, g) = PlaceholderFor(mapped.value.family_amenities)
              /\ TextsBetween(g, Len(printed)) = PlaceholderFor(mapped.value.safety_feats)
              /\ mapped.value.general_amenities = <<>> => f = a + 1

\* A report printed for a summary with no general and no family amenity and
\* two safety features.
C8_Witness ==
    /\ printed # Unset
    /\ mapped.value.general_amenities = <<>>
    /\ mapped.value.family_amenities = <<>>
    /\ Len(mapped.value.safety_feats) = 2

(***************************************************************************)
(* Claims about Scraper.run and main (SpecWorker, SpecMain).               *)
(***************************************************************************)
\* The one thing a try block's run prints after the URL: the report, the
\* status message or the exception's message.
Printout(url) ==
    LET r == session_get(url)
    IN  IF ~r.ok THEN [type |-> "scraper_failed", url |-> url, error |-> r.error]
        ELSE IF r.value.status_code # 200
        THEN [type |-> "failed_to_retrieve", url |-> url,
              status_code |-> r.value.status_code]
        ELSE LET c == get_json_data(r.value.text)
             IN  IF ~c.ok
                 THEN [type |-> "scraper_failed", url |-> url, error |-> c.error]
                 ELSE LET g == generate_report(c.value)
                      IN  IF ~g.ok
                          THEN [type |-> "scraper_failed", url |-> url,
                                error |-> g.error]
                          ELSE [type |-> "report", lines |-> print_report(g.value)]

\* A URL is valid when fetch gives status 200 and extraction and mapping
\* succeed.
Valid(url) == Printout(url).type = "report"

Diagnostics == {"failed_to_retrieve", "scraper_failed"}

EventsOf(w, types) == {j \in 1..Len(out[w]) : out[w][j].type \in types}

Count(w, types) == Cardinality(EventsOf(w, types))

\* The place in out[w] of the i-th URL the thread has taken up.
UrlPos(w, i) ==
    CHOOSE j \in EventsOf(w, {"url"}) :
        Cardinality({k \in EventsOf(w, {"url"}) : k <= j}) = i

\* What thread w has printed for its i-th URL so far.
Segment(w, i) ==
    SubSeq(out[w], UrlPos(w, i) + 1,
           IF i < Count(w, {"url"}) THEN UrlPos(w, i + 1) - 1 ELSE Len(out[w]))

\* The try block of the i-th URL of thread w has been left.
Left(w, i) == i < idx[w] \/ (i = idx[w] /\ pc[w] \in {"for", "finished"})

InTry(w) == pc[w] \in {"get", "status", "extract", "map", "render", "except"}

\* C1: whatever the mix of failing and valid URLs in a thread's list, run
\* takes up every URL of the list, and when it has returned the number of
\* reports is the number of valid URLs and the number of diagnostics is the
\* number of failing URLs.
C1_BatchIsolation ==
    \A w \in Threads :
        pc[w] = "finished" =>
            /\ idx[w] = Len(urls[w])
            /\ Count(w, {"report"}) =
                  Cardinality({i \in 1..Len(urls[w]) : Valid(urls[w][i])})
            /\ Count(w, Diagnostics) =
                  Cardinality({i \in 1..Len(urls[w]) : ~Valid(urls[w][i])})

\* C6: a report is printed for a URL only if its fetch gave status 200 and
\* its extraction and mapping succeeded; for a URL whose fetch, extraction or
\* mapping fails, once its try block is left exactly one diagnostic naming
\* the URL has been printed and no report; a payload without the listing's
\* name makes generate_report raise and gives no summary.
C6_FailedUrlOnlyDiagnostic ==
    /\ ~generate_report(Documents["doc_noname"]).ok
    /\ \A w \in Threads :
          \A i \in 1..idx[w] :
              LET u == urls[w][i]
                  seg == Segment(w, i)
              IN  /\ \A k \in 1..Len(seg) : seg[k].type = "report" => Valid(u)
                  /\ ~Valid(u) /\ Left(w, i) =>
                        /\ Len(seg) = 1
                        /\ seg[1].type \in Diagnostics
                        /\ seg[1].url = u
    /\ \A w \in Threads :
          pc[w] = "render" =>
              /\ response[w].status_code = 200
              /\ Valid(Url(w))

\* A thread has returned after a URL whose payload has no listing name: one
\* diagnostic with the KeyError, no report.
C6_Witness ==
    \E w \in Threads :
        /\ pc[w] = "finished"
        /\ \E i \in 1..idx[w] :
              /\ urls[w][i] = "http://noname"
              /\ Segment(w, i) = <<[type |-> "scraper_failed",
                                    url |-> "http://noname", error |-> "KeyError"]>>
        /\ Count(w, {"report"}) = 0

\* C10: a thread takes up its URLs one at a time in list order; for a URL
\* it fetches, then extracts from the response, then maps the content, then
\* renders the summary; it takes up a URL only when the report or diagnostic
\* of the one before is printed, so what a thread prints is in list order
\* whatever the other threads do.
C10_SequentialOrder ==
    \A w \in Threads :
        /\ Count(w, {"url"}) = idx[w]
        /\ idx[w] <= Len(urls[w])
        /\ \A i \in 1..idx[w] :
              /\ out[w][UrlPos(w, i)].url = urls[w][i]
              /\ Left(w, i) => Segment(w, i) = <<Printout(urls[w][i])>>
        /\ InTry(w) => Segment(w, idx[w]) = <<>>
        /\ pc[w] \in {"status", "extract", "map", "render"} =>
              session_get(Url(w)) = Return(response[w])
        /\ pc[w] \in {"extract", "map", "render"} => response[w].status_code = 200
        /\ pc[w] \in {"map", "render"} =>
              get_json_data(response[w].text) = Return(content[w])
        /\ pc[w] = "render" => generate_report(content[w]) = Return(summary_data[w])

\* Thread 1 has printed a diagnostic and then a report for its two URLs
\* while thread 2 is in the middle of its URL.
C10_Witness ==
    /\ pc[1] = "finished"
    /\ urls[1] = <<"http://badjson", "http://ok">>
    /\ Len(out[1]) = 4
    /\ out[1][2].type = "scraper_failed"
    /\ out[1][4].type = "report"
    /\ pc[2] = "map"

\* What run prints on a list of URLs, from the first to the end or to the
\* first status that is not 200.
RECURSIVE RunAlone(_)
RunAlone(us) ==
    IF us = <<>> THEN <<>>
    ELSE <<[type |-> "url", url |-> Head(us)], Printout(Head(us))>>
         \o (IF Printout(Head(us)).type = "failed_to_retrieve" THEN <<>>
             ELSE RunAlone(Tail(us)))

IsPrefix(s, t) == Len(s) <= Len(t) /\ s = SubSeq(t, 1, Len(s))

RECURSIVE Attempts(_)
\* The number of URLs taken up by the threads 1..k.
Attempts(k) == IF k = 0 THEN 0 ELSE idx[k] + Attempts(k - 1)

\* C2: main returns only when every thread has taken up every URL of its
\* chunk, and then the count of URLs taken up, one per URL and thread, is the
\* number of URLs in the input list.
C2_PoolCompletion ==
    main_pc = "returned" =>
        /\ \A w \in Threads : pc[w] = "finished" /\ idx[w] = Len(urls[w])
        /\ Attempts(no_threads) = Len(lines)

\* C9: no exception leaves a thread's run; what a thread prints is what its
\* run prints on its list alone, whatever fails in other threads; main
\* builds and starts all no_threads threads, joins them all and returns.
C9_ErrorsContained ==
    /\ main_pc # "raised"
    /\ \A w \in Threads :
          /\ pc[w] # "died"
          /\ IsPrefix(out[w], RunAlone(urls[w]))
          /\ pc[w] = "finished" => out[w] = RunAlone(urls[w])
          /\ main_pc \in {"start", "join", "print", "returned"} =>
                urls[w] = chunks[w]
          /\ main_pc = "start" => (pc[w] = "new") = (w >= main_i)
          /\ main_pc \in {"join", "print", "returned"} => pc[w] \notin {"none", "new"}
          /\ main_pc = "join" /\ w < main_i => pc[w] = "finished"
          /\ main_pc \in {"print", "returned"} => pc[w] = "finished"

\* main has returned; one thread printed a diagnostic for an exception and
\* another a report.
C9_Witness ==
    /\ main_pc = "returned"
    /\ \E v, w \in Threads :
          /\ v # w
          /\ Count(v, {"scraper_failed"}) > 0
          /\ Count(w, {"report"}) > 0

====
